---- MODULE Spec2Model ----
(***************************************************************************)
(* A state-machine model of src/discord.py, the Discord integration for    *)
(* GOG Galaxy: the plugin's host-facing calls (authenticate,               *)
(* get_owned_games, get_friends), the scrape they run over one DevTools    *)
(* websocket, and the remote side of that websocket.                       *)
(*                                                                         *)
(* Scheduling.  The plugin runs on one cooperative event loop.  A          *)
(* coroutine gives the loop up only where it awaits real I/O; the only     *)
(* such place is the HTTP request of get_ws_url.  Everything else          *)
(* (psutil, subprocess, the blocking websocket-client calls) runs to the   *)
(* end without yielding.  `running` is the task that holds the loop.       *)
(*                                                                         *)
(* Spec is the plugin with its host, the DevTools endpoint and the         *)
(* relaunched Discord process.  InventorySpec runs get_games alone, over   *)
(* every installationPaths list and disk within the bounds.                *)
(***************************************************************************)
EXTENDS Integers, Sequences, FiniteSets, TLC

\* ------------------------------------------------------------- bounds
\* Host calls made during one life of the plugin.
MaxCalls == 2
\* Unsolicited event frames the remote side may emit on one connection.
MaxEvents == 1
\* Friend rows the DOM query may return.
MaxRows == 1

\* Install roots in installationPaths, and entries in an install root.
MaxPaths == 2
MaxFolders == 2

\* -------------------------------------------------- program constants
\* create_ws_json writes the literal "id": 1 into every request.
RequestId == 1
\* start(rec_tries=0): both call sites call start() with no argument.
rec_tries == 0
\* start: if rec_tries > 100
MaxRecTries == 100

Tasks == 1..MaxCalls
NoTask == 0

Parts == {"inventory", "contacts", "email"}

\* Failure kinds.  The names are the spec's taxonomy; each stands for the
\* Python exception the code raises at that place.
HandshakeFailed == "HandshakeFailed"        \* ws.connect raises
InvalidUrl == "InvalidUrl"                  \* ws.connect(None)
MalformedResponse == "MalformedResponse"    \* KeyError / TypeError / IndexError
DebugPortTimeout == "DebugPortTimeout"      \* the HTTP GET fails
KillFailed == "KillFailed"                  \* Popen of the kill command raises
InvalidCredentials == "InvalidCredentials"  \* galaxy.api.errors.InvalidCredentials
RemoteError == "RemoteError"                \* (the spec's kind; the code has no such raise)
ProtocolTimeout == "ProtocolTimeout"        \* (the spec's kind; the code has no such raise)
ProcessNotFound == "ProcessNotFound"        \* (the spec's kind; the code has no such raise)
LaunchFailed == "LaunchFailed"              \* (the spec's kind; the code has no such raise)

VARIABLES
    \* the host and the machine
    isWindows,      \* IS_WINDOWS
    stored,         \* the credentials the host persists: <<>> (none) or an email
    discord,        \* the target process: NoProc or its command line
    output,         \* the line process.stdout.readline() returns next, if there is one
    \* DiscordPlugin's fields
    user_email, games, friends,
    \* module globals
    ws_url, returned_from_trio_run,
    slotWriter,     \* history: the task in scrape_discord whose start() assigned the slot
    killedSince,    \* history: the target process was killed after ws_url was resolved
    \* the host's calls, one task each
    op, tpc, result, running,
    \* the scrape the running task is in (locals of start/get_games/get_friends)
    spc, row, rows, l_node, l_user, l_games, l_friends, l_email, have, attempts, serr,
    \* the websocket of that scrape and its remote side
    connected, outbox, inbox, sent, events, lastRecv,
    \* get_games on its own: its input, the disk it walks, what it gave
    installationPaths, disk, inventory

hostVars == <<isWindows, stored, discord, output>>
pluginVars == <<user_email, games, friends>>
globalVars == <<ws_url, returned_from_trio_run, slotWriter, killedSince>>
taskVars == <<op, tpc, result, running>>
scrapeVars ==
    <<spc, row, rows, l_node, l_user, l_games, l_friends, l_email, have, attempts, serr>>
connVars == <<connected, outbox, inbox, sent, events, lastRecv>>
gamesVars == <<installationPaths, disk, inventory>>
vars == <<hostVars, pluginVars, globalVars, taskVars, scrapeVars, connVars, gamesVars>>

\* ------------------------------------------------------------ values
NoUrl == "None"
PageUrl == "ws://page"

\* The shared result slot: a function from the parts it holds to their values.
NoSlot == [p \in {} |-> <<>>]

NoProc == [alive |-> FALSE, len |-> 0, dbg |-> FALSE]
\* A running Discord: len is len(cmdline), dbg is cmdline[1] == --remote-debugging-port=PORT.
Procs ==
    {[alive |-> TRUE, len |-> 1, dbg |-> FALSE]}
    \cup [alive : {TRUE}, len : {2, 3}, dbg : BOOLEAN]

\* What localStorage holds for email_cache: JSON text of a string, "" or "a"
\* ("q" is the quote character).
EmailValues == {<<"q", "q">>, <<"q", "a", "q">>}

\* History of the last ws.recv() of the connection: the id and kind of the
\* frame it returned and what its caller did with it (taken as the response
\* of the pending command, or discarded).
NoRecv == [id |-> 0, kind |-> "none", as |-> "none"]


Ops == {"authenticate", "get_owned_games", "get_friends", "get_local_games"}

\* The body a host call runs: get_owned_games and get_friends are both
\* "await self.ensure_discord_scraped()" followed by the return of a field.
BodyOf(o) ==
    IF o \in {"get_owned_games", "get_friends"} THEN "ensure_discord_scraped" ELSE o

\* What the host got from the call that completed last, until the plugin
\* runs again (a new call, or authenticate resuming): the call, its outcome
\* ("ok" or the kind of the exception raised to the host) and, for a scrape
\* that raised, the kind of the exception that left scrape_discord.
NoResult == [op |-> "none", out |-> "none", cause |-> "none"]

\* ----------------------------------------------------------- the disk
\* The install roots the install-manager state can name.
Roots == {"p1", "p2"}

\* An entry of an install root: a plain file, a directory without
\* application_info.json, a directory with it, or a directory whose
\* application_info.json does not parse to an object with both keys.
FolderKinds == {"file", "dir", "dir_info", "dir_bad"}

FolderLists == UNION {[1..n -> FolderKinds] : n \in 0..MaxFolders}

\* An install root on the disk: absent, a plain file, or a directory with
\* its entries in the order os.listdir gives them.
RootStates ==
    {[kind |-> "absent", list |-> <<>>], [kind |-> "file", list |-> <<>>]}
    \cup {[kind |-> "dir", list |-> l] : l \in FolderLists}

Disks == [Roots -> RootStates]

PathLists == UNION {[1..n -> Roots] : n \in 0..MaxPaths}

\* The disk nobody has looked at, and the result of no call.
NoDisk == [r \in Roots |-> [kind |-> "absent", list |-> <<>>]]
NoInventory == [ok |-> FALSE, games |-> <<>>, reads |-> <<>>, called |-> FALSE]

\* json.loads(open(info_file_path).read()) of entry j of root r.
app_info(r, j) == [application_id |-> <<"id", r, j>>, name |-> <<"name", r, j>>]

\* Game(app_info["application_id"], app_info["name"], [], LicenseInfo(...))
Game(id, title) == [game_id |-> id, game_title |-> title]

\* One call of os.path.isdir / os.listdir / os.path.isfile / open, on root r
\* (j = 0) or on its entry j.
Access(call, r, j) == [call |-> call, root |-> r, folder |-> j]

\* get_games, lines 268-275: the entries of root r from entry j on.  acc is
\* the games list, the accesses made, and whether no exception was raised.
RECURSIVE WalkFolders(_, _, _, _)
WalkFolders(d, r, j, acc) ==
    IF j > Len(d[r].list) \/ ~acc.ok THEN acc
    ELSE LET k == d[r].list[j]
             a1 == [acc EXCEPT !.reads = Append(@, Access("isdir", r, j))]
             a2 == [a1 EXCEPT !.reads = Append(@, Access("isfile", r, j))]
             a3 == [a2 EXCEPT !.reads = Append(@, Access("open", r, j))]
         IN IF k \notin {"dir", "dir_info", "dir_bad"} THEN WalkFolders(d, r, j + 1, a1)
            ELSE IF k \notin {"dir_info", "dir_bad"} THEN WalkFolders(d, r, j + 1, a2)
            ELSE IF k = "dir_bad" THEN [a3 EXCEPT !.ok = FALSE]
            ELSE WalkFolders(d, r, j + 1,
                    [a3 EXCEPT !.games =
                        Append(@, Game(app_info(r, j).application_id, app_info(r, j).name))])

\* get_games, lines 266-267: the install roots from index i on.
RECURSIVE WalkRoots(_, _, _, _)
WalkRoots(paths, d, i, acc) ==
    IF i > Len(paths) \/ ~acc.ok THEN acc
    ELSE LET r == paths[i]
             a1 == [acc EXCEPT !.reads = Append(@, Access("isdir", r, 0))]
             a2 == [a1 EXCEPT !.reads = Append(@, Access("listdir", r, 0))]
         IN IF d[r].kind # "dir" THEN WalkRoots(paths, d, i + 1, a1)
            ELSE WalkRoots(paths, d, i + 1, WalkFolders(d, r, 1, a2))

\* Variants of get_games: one that also walks a default install root, one
\* that walks the install roots last to first.
get_gamesDefaultRoot(paths, d) ==
    WalkRoots(<<"p1">> \o paths, d, 1, [ok |-> TRUE, games |-> <<>>, reads |-> <<>>, called |-> TRUE])
get_gamesUnordered(paths, d) ==
    WalkRoots([i \in 1..Len(paths) |-> paths[Len(paths) + 1 - i]], d, 1,
              [ok |-> TRUE, games |-> <<>>, reads |-> <<>>, called |-> TRUE])

\* get_games after the install-manager state has been read: the early
\* return on an empty installationPaths, then the walk.
get_games(paths, d) ==
    IF paths = <<>>
    THEN [ok |-> TRUE, games |-> <<>>, reads |-> <<>>, called |-> TRUE]
    ELSE WalkRoots(paths, d, 1, [ok |-> TRUE, games |-> <<>>, reads |-> <<>>, called |-> TRUE])

\* The disks the scrape is run against: the install root p1 holding one
\* application, p1 absent, and p1 holding an application with a broken
\* application_info.json.
ScrapeDisks ==
    {[NoDisk EXCEPT !["p1"] = [kind |-> "dir", list |-> <<k>>]] : k \in {"dir_info", "dir_bad"}}
    \cup {NoDisk}

\* ------------------------------------------------------------- Init
\* DiscordPlugin.__init__ and the module globals; the machine is in any
\* state a user can leave it in.
Constructed ==
    /\ output = "none"
    /\ user_email = <<>>
    /\ games = <<>>
    /\ friends = <<>>
    /\ ws_url = NoUrl
    /\ returned_from_trio_run = NoSlot
    /\ slotWriter = NoTask
    /\ killedSince = FALSE
    /\ op = [t \in Tasks |-> "none"]
    /\ tpc = [t \in Tasks |-> "idle"]
    /\ result = NoResult
    /\ running = NoTask
    /\ spc = "none"
    /\ row = 0
    /\ rows = <<>>
    /\ l_node = 0
    /\ l_user = <<>>
    /\ l_games = <<>>
    /\ l_friends = <<>>
    /\ l_email = <<>>
    /\ have = {}
    /\ attempts = 0
    /\ serr = "none"
    /\ connected = FALSE
    /\ outbox = <<>>
    /\ inbox = <<>>
    /\ sent = <<>>
    /\ events = 0
    /\ lastRecv = NoRecv

Init ==
    /\ isWindows \in BOOLEAN
    /\ stored \in {<<>>, <<"a">>}
    /\ discord \in Procs \cup {NoProc}
    /\ Constructed
    /\ installationPaths = <<>>
    /\ disk = NoDisk
    /\ inventory = NoInventory

\* ------------------------------------------------- the target process
RESTART_DISCORD == TRUE

\* The branch of prepare_and_discover_discord that kills and relaunches.
Relaunches(p) ==
    /\ p.alive
    /\ (p.len < 3 \/ RESTART_DISCORD)
    /\ (p.len = 1 \/ (RESTART_DISCORD /\ p.len = 2))

\* subprocess.Popen([path, "--remote-debugging-port=PORT"]): the replacement.
Spawned == [alive |-> TRUE, len |-> 2, dbg |-> TRUE]

\* What the replacement can write to its stdout: the line announcing the
\* debugging socket, or some other line.
Lines == {"DevTools listening on", "other"}

\* The debugging port answers.
Listening(p) == p.alive /\ p.dbg

\* ------------------------------------------------------- host calls
\* The call of task t completes: it returns, or raises, to the host.
Finish(t, out, cause) ==
    /\ result' = [op |-> op[t], out |-> out, cause |-> cause]
    /\ op' = [op EXCEPT ![t] = "none"]
    /\ tpc' = [tpc EXCEPT ![t] = "done"]
    /\ running' = NoTask

\* The host calls a plugin method: a new task gets the event loop.
Call(t, o) ==
    /\ running = NoTask
    /\ tpc[t] = "idle"
    /\ \A u \in Tasks : u < t => tpc[u] # "idle"
    /\ op' = [op EXCEPT ![t] = BodyOf(o)]
    /\ tpc' = [tpc EXCEPT ![t] = "entry"]
    /\ running' = t
    /\ result' = NoResult
    /\ UNCHANGED <<hostVars, pluginVars, globalVars, scrapeVars, connVars>>
    /\ UNCHANGED gamesVars

\* The locals of a fresh start() call and the reset of the previous scrape's.
EnterScrape ==
    /\ spc' = "start"
    /\ row' = 0
    /\ rows' = <<>>
    /\ l_node' = 0
    /\ l_user' = <<>>
    /\ l_games' = <<>>
    /\ l_friends' = <<>>
    /\ l_email' = <<>>
    /\ have' = {}
    /\ attempts' = 0
    /\ serr' = "none"

\* authenticate with stored credentials: the else branch.
AuthStored(t) ==
    /\ running = t /\ op[t] = "authenticate" /\ tpc[t] = "entry"
    /\ stored # <<>>
    /\ user_email' = stored
    /\ Finish(t, "ok", "none")
    /\ UNCHANGED <<games, friends, hostVars, globalVars, scrapeVars, connVars>>
    /\ UNCHANGED gamesVars

\* authenticate leaves prepare_and_discover_discord and goes on into
\* get_ws_url, which sends its GET and gives the event loop up.
AwaitWsUrl(t) ==
    /\ tpc' = [tpc EXCEPT ![t] = "ws_wait"]
    /\ running' = NoTask

\* authenticate without stored credentials: prepare_and_discover_discord.
\* Either it kills the process and spawns the replacement, whose output it
\* then scans, or it returns (line 160, or the end of the for loop).
AuthPrepare(t) ==
    /\ running = t /\ op[t] = "authenticate" /\ tpc[t] = "entry"
    /\ stored = <<>>
    /\ IF Relaunches(discord)
       THEN /\ discord' = Spawned
            /\ killedSince' = (killedSince \/ ws_url # NoUrl)
            /\ tpc' = [tpc EXCEPT ![t] = "scan"]
            /\ UNCHANGED running
       ELSE /\ AwaitWsUrl(t)
            /\ UNCHANGED <<discord, killedSince>>
    /\ UNCHANGED <<op, result, isWindows, stored, output, pluginVars, ws_url,
                   returned_from_trio_run, slotWriter, scrapeVars, connVars>>
    /\ UNCHANGED gamesVars

\* The while True loop over process.stdout.readline(): a line that is not
\* the listening line is logged and the loop reads on; the listening line,
\* or the end of the output of a process that has exited, ends the loop and
\* prepare_and_discover_discord returns.
ScanLine(t) ==
    /\ running = t /\ tpc[t] = "scan"
    /\ output # "none"
    /\ output' = "none"
    /\ IF output = "other"
       THEN UNCHANGED <<tpc, running>>
       ELSE AwaitWsUrl(t)
    /\ UNCHANGED <<op, result, isWindows, stored, discord, pluginVars, globalVars,
                   scrapeVars, connVars>>
    /\ UNCHANGED gamesVars

\* get_ws_url resumes with the listing, sets ws_url, and authenticate goes
\* straight on into scrape_discord.
GetWsUrlOk(t) ==
    /\ running = NoTask /\ tpc[t] = "ws_wait"
    /\ Listening(discord)
    /\ ws_url' = PageUrl
    /\ killedSince' = FALSE
    /\ tpc' = [tpc EXCEPT ![t] = "scrape"]
    /\ running' = t
    /\ EnterScrape
    /\ result' = NoResult
    /\ UNCHANGED <<op, hostVars, pluginVars, returned_from_trio_run, slotWriter, connVars>>
    /\ UNCHANGED gamesVars

\* get_ws_url fails: the GET is refused, or the listing is empty (resp_json[0]).
\* It is outside authenticate's try, so the exception leaves authenticate as it is.
GetWsUrlFail(t) ==
    /\ running = NoTask /\ tpc[t] = "ws_wait"
    /\ Finish(t, IF Listening(discord) THEN MalformedResponse ELSE DebugPortTimeout, "none")
    /\ UNCHANGED <<hostVars, pluginVars, globalVars, scrapeVars, connVars>>
    /\ UNCHANGED gamesVars

\* get_owned_games / get_friends: ensure_discord_scraped.
EnsureScrape(t) ==
    /\ running = t /\ op[t] = "ensure_discord_scraped" /\ tpc[t] = "entry"
    /\ user_email = <<>>
    /\ tpc' = [tpc EXCEPT ![t] = "scrape"]
    /\ EnterScrape
    /\ UNCHANGED <<op, result, running, hostVars, pluginVars, globalVars, connVars>>
    /\ UNCHANGED gamesVars

EnsureSkip(t) ==
    /\ running = t /\ op[t] = "ensure_discord_scraped" /\ tpc[t] = "entry"
    /\ user_email # <<>>
    /\ Finish(t, "ok", "none")
    /\ UNCHANGED <<hostVars, pluginVars, globalVars, scrapeVars, connVars>>
    /\ UNCHANGED gamesVars

\* get_local_games: a LocalGame per entry of self.games; its call of
\* ensure_discord_scraped is commented out.
LocalGames(t) ==
    /\ running = t /\ op[t] = "get_local_games" /\ tpc[t] = "entry"
    /\ Finish(t, "ok", "none")
    /\ UNCHANGED <<hostVars, pluginVars, globalVars, scrapeVars, connVars>>
    /\ UNCHANGED gamesVars

\* ------------------------------------------------ protocol frames
\* create_ws_json: the request text, with its literal id.
create_ws_json(method, params) ==
    [id |-> RequestId, method |-> method, params |-> params]

runtime_evaluate_json(expression) ==
    create_ws_json("Runtime.evaluate", expression)

\* DOM node ids: the span a row's username / discriminator selector finds,
\* and the 0 DOM.querySelector answers with when nothing matches.
NoNode == 0
UsernameNode == 1
DiscriminatorNode == 2

\* The request each send of the scrape writes.
RequestAt(p) ==
    CASE p = "games_send" -> runtime_evaluate_json("InstallationManagerStore")
      [] p = "home_send"  -> runtime_evaluate_json("click")
      [] p = "chan_send"  -> runtime_evaluate_json("click")
      [] p = "all_send"   -> runtime_evaluate_json("click")
      [] p = "doc_send"   -> create_ws_json("DOM.getDocument", "")
      [] p = "rows_send"  -> create_ws_json("DOM.querySelectorAll", "friendsRow")
      [] p = "unode_send" -> create_ws_json("DOM.querySelector", "username")
      [] p = "uhtml_send" -> create_ws_json("DOM.getOuterHTML", l_node)
      [] p = "dnode_send" -> create_ws_json("DOM.querySelector", "discriminator")
      [] p = "dhtml_send" -> create_ws_json("DOM.getOuterHTML", l_node)
      [] p = "email_send" -> runtime_evaluate_json("email_cache")

SendPcs ==
    {"games_send", "home_send", "chan_send", "all_send", "doc_send", "rows_send",
     "unode_send", "uhtml_send", "dnode_send", "dhtml_send", "email_send"}

\* The pc that waits for the response of a send.
RecvOf(p) ==
    CASE p = "games_send" -> "games_recv"
      [] p = "home_send"  -> "home_recv"
      [] p = "chan_send"  -> "chan_recv"
      [] p = "all_send"   -> "all_recv"
      [] p = "doc_send"   -> "doc_recv"
      [] p = "rows_send"  -> "rows_recv"
      [] p = "unode_send" -> "unode_recv"
      [] p = "uhtml_send" -> "uhtml_recv"
      [] p = "dnode_send" -> "dnode_recv"
      [] p = "dhtml_send" -> "dhtml_recv"
      [] p = "email_send" -> "email_recv"

RecvPcs == {RecvOf(p) : p \in SendPcs}

\* Row lists of at most MaxRows node ids.
RowLists == {[i \in 1..n |-> "r"] : n \in 0..MaxRows}

\* The texts a row's username span and discriminator span can hold, as
\* sequences of characters.
UsernameTexts == {<<"a", "&">>, <<>>}
DiscriminatorTexts == {<<"#", "1">>, <<>>}

\* The HTML serialisation of a text node: & is written &amp;.
EscapeChar(c) == IF c = "&" THEN <<"&", "a", "m", "p", ";">> ELSE <<c>>

RECURSIVE Escape(_)
Escape(text) ==
    IF text = <<>> THEN <<>> ELSE EscapeChar(Head(text)) \o Escape(Tail(text))

\* The outerHTML of a span: <span class="cls">inner</span>.
OuterHTML(cls, text) == [class |-> cls, inner |-> Escape(text)]

\* re.search(r'<span class=".+">(.+)</span>', str(username)): the match and
\* its group 1, or no match (None).
re_search_username(html) ==
    IF html.inner # <<>>
    THEN [matched |-> TRUE, group |-> html.inner]
    ELSE [matched |-> FALSE, group |-> <<>>]

\* re.search(r'<span class=".+">#(.+)</span>', str(discriminator))
re_search_discriminator(html) ==
    IF Len(html.inner) >= 2 /\ html.inner[1] = "#"
    THEN [matched |-> TRUE, group |-> Tail(html.inner)]
    ELSE [matched |-> FALSE, group |-> <<>>]

\* The result frames the remote side can answer a request with.  shape is
\* the key path the payload has: value (result.result.value), undefined
\* (a Runtime.evaluate result with no value), root, nodeIds, nodeId, outerHTML.
ResultsFor(req) ==
    LET R(shape, val) == [id |-> req.id, kind |-> "result", shape |-> shape, val |-> val]
    IN CASE req.method = "Runtime.evaluate" /\ req.params = "click" ->
                {R("undefined", <<>>)}
         [] req.method = "Runtime.evaluate" /\ req.params = "InstallationManagerStore" ->
                {R("value", v) : v \in {<<>>, <<"p1">>}}
         [] req.method = "Runtime.evaluate" /\ req.params = "email_cache" ->
                {R("value", v) : v \in EmailValues} \cup {R("undefined", <<>>)}
         [] req.method = "DOM.getDocument" ->
                {R("root", <<"doc">>)}
         [] req.method = "DOM.querySelectorAll" ->
                {R("nodeIds", v) : v \in RowLists}
         [] req.method = "DOM.querySelector" /\ req.params = "username" ->
                {R("nodeId", n) : n \in {UsernameNode, NoNode}}
         [] req.method = "DOM.querySelector" /\ req.params = "discriminator" ->
                {R("nodeId", n) : n \in {DiscriminatorNode, NoNode}}
         [] req.method = "DOM.getOuterHTML" /\ req.params = UsernameNode ->
                {R("outerHTML", OuterHTML("username-x", u)) : u \in UsernameTexts}
         [] req.method = "DOM.getOuterHTML" /\ req.params = DiscriminatorNode ->
                {R("outerHTML", OuterHTML("discriminator-y", v)) : v \in DiscriminatorTexts}
         [] req.method = "DOM.getOuterHTML" /\ req.params = NoNode ->
                {}

ErrorFor(req) == [id |-> req.id, kind |-> "error", shape |-> "none", val |-> <<>>]

\* An event notification: a frame with a method and no id.
EventFrame == [id |-> 0, kind |-> "event", shape |-> "none", val |-> <<>>]

\* 'result' in json.loads(resp)
HasResult(f) == f.kind = "result"


\* ------------------------------------------------------- the scrape
\* Whether a scrape gives the event loop up at pc p.  start, get_games,
\* get_friends and get_user_email await nothing but each other, and the
\* websocket calls block: the scrape never yields.
YieldsAtRecv(p) == p \in RecvPcs
YieldsAt(p) == FALSE

\* Task t is inside scrape_discord and may take its next step.
InScrape(t) ==
    /\ tpc[t] = "scrape"
    /\ running = t \/ (running = NoTask /\ YieldsAt(spc))

\* The scrape of t moves to pc p.
Goto(t, p) ==
    /\ spc' = p
    /\ running' = IF YieldsAt(p) THEN NoTask ELSE t
    /\ UNCHANGED <<op, tpc, result>>

\* What the scrape has gathered so far.
Gathered ==
    [p \in have |->
        CASE p = "inventory" -> l_games
          [] p = "contacts" -> l_friends
          [] p = "email" -> l_email]

\* The slot after an exception has left start(): the assignment of line 171
\* is not reached, the slot keeps what it held.
SlotOnFailureGathered == Gathered
SlotOnFailure == returned_from_trio_run

\* An exception of kind k leaves start() / scrape_discord.
Raise(t, k) ==
    /\ Goto(t, "raised")
    /\ serr' = k
    /\ returned_from_trio_run' = SlotOnFailure
    /\ UNCHANGED <<ws_url, slotWriter, killedSince>>

\* The outcomes of ws.connect(ws_url).
ConnectOutcomes(url, p) ==
    IF url = NoUrl THEN {InvalidUrl}
    ELSE IF Listening(p) THEN {"ok", HandshakeFailed}
    ELSE {HandshakeFailed}

\* start(): the retry check, then one connection attempt.
Start(t) ==
    /\ InScrape(t) /\ spc = "start"
    /\ IF rec_tries > MaxRecTries
       THEN /\ Raise(t, InvalidCredentials)
            /\ UNCHANGED <<attempts, connVars>>
       ELSE /\ attempts' = attempts + 1
            /\ \E o \in ConnectOutcomes(ws_url, discord) :
                IF o = "ok"
                THEN /\ Goto(t, "games_send")
                     /\ connected' = TRUE
                     /\ outbox' = <<>>
                     /\ inbox' = <<>>
                     /\ sent' = <<>>
                     /\ events' = 0
                     /\ lastRecv' = NoRecv
                     /\ UNCHANGED <<serr, globalVars>>
                ELSE /\ Raise(t, o)
                     /\ UNCHANGED connVars
    /\ UNCHANGED <<hostVars, pluginVars, row, rows, l_user, l_games, l_friends, l_email, have>>
    /\ UNCHANGED <<l_node, gamesVars>>

\* ws.send(msg)
SendCommand(t) ==
    /\ InScrape(t) /\ spc \in SendPcs
    /\ outbox' = Append(outbox, RequestAt(spc))
    /\ sent' = Append(sent, RequestAt(spc).id)
    /\ Goto(t, RecvOf(spc))
    /\ UNCHANGED <<hostVars, pluginVars, globalVars, connected, inbox, events, lastRecv,
                   row, rows, l_user, l_games, l_friends, l_email, have, attempts, serr>>
    /\ UNCHANGED <<l_node, gamesVars>>

\* ws.recv(): the next frame, and how the caller used it.
Read(as) ==
    /\ inbox # <<>>
    /\ inbox' = Tail(inbox)
    /\ lastRecv' = [id |-> Head(inbox).id, kind |-> Head(inbox).kind, as |-> as]
    /\ UNCHANGED <<connected, outbox, sent, events>>

\* open_friends_page: after each click's send, one ws.recv() whose value is dropped.
RecvClick(t) ==
    /\ InScrape(t) /\ spc \in {"home_recv", "chan_recv", "all_recv"}
    /\ Read("taken")
    /\ Goto(t, CASE spc = "home_recv" -> "chan_send"
                 [] spc = "chan_recv" -> "all_send"
                 [] spc = "all_recv" -> "doc_send")
    /\ UNCHANGED <<hostVars, pluginVars, globalVars,
                   row, rows, l_user, l_games, l_friends, l_email, have, attempts, serr>>
    /\ UNCHANGED <<l_node, gamesVars>>

\* get_friends: root_node = ws.recv(); json.loads(root_node)['result']['root']['nodeId']
RecvDocument(t) ==
    /\ InScrape(t) /\ spc = "doc_recv"
    /\ Read("taken")
    /\ IF HasResult(Head(inbox)) /\ Head(inbox).shape = "root"
       THEN Goto(t, "rows_send") /\ UNCHANGED <<serr, globalVars>>
       ELSE Raise(t, MalformedResponse)
    /\ UNCHANGED <<hostVars, pluginVars,
                   row, rows, l_user, l_games, l_friends, l_email, have, attempts>>
    /\ UNCHANGED <<l_node, gamesVars>>

\* The while True loops: a frame without 'result' is dropped and the loop reads on.
RecvDiscard(t) ==
    /\ InScrape(t) /\ spc \in RecvPcs \ {"home_recv", "chan_recv", "all_recv", "doc_recv"}
    /\ inbox # <<>> /\ ~HasResult(Head(inbox))
    /\ Read("discarded")
    /\ Goto(t, spc)
    /\ UNCHANGED <<hostVars, pluginVars, globalVars,
                   row, rows, l_user, l_games, l_friends, l_email, have, attempts, serr>>
    /\ UNCHANGED <<l_node, gamesVars>>

\* A loop's frame with 'result' whose payload lacks the key the caller indexes.
RecvWrongShape(t) ==
    /\ InScrape(t) /\ spc \in RecvPcs \ {"home_recv", "chan_recv", "all_recv", "doc_recv"}
    /\ inbox # <<>> /\ HasResult(Head(inbox))
    /\ Head(inbox).shape #
         (CASE spc \in {"games_recv", "email_recv"} -> "value"
            [] spc = "rows_recv" -> "nodeIds"
            [] spc \in {"unode_recv", "dnode_recv"} -> "nodeId"
            [] spc \in {"uhtml_recv", "dhtml_recv"} -> "outerHTML")
    /\ Read("taken")
    /\ Raise(t, MalformedResponse)
    /\ UNCHANGED <<hostVars, pluginVars,
                   row, rows, l_user, l_games, l_friends, l_email, have, attempts>>
    /\ UNCHANGED <<l_node, gamesVars>>

\* The frame a loop takes as its response, with the payload it expects.
Takes(t, p, shape) ==
    /\ InScrape(t) /\ spc = p
    /\ inbox # <<>> /\ HasResult(Head(inbox)) /\ Head(inbox).shape = shape
    /\ Read("taken")

\* get_games: the install-manager state, then the walk of the install roots.
RecvGames(t) ==
    /\ Takes(t, "games_recv", "value")
    /\ \E d \in ScrapeDisks :
        LET got == get_games(Head(inbox).val, d)
        IN IF got.ok
           THEN /\ l_games' = got.games
                /\ have' = have \cup {"inventory"}
                /\ Goto(t, "home_send")
                /\ UNCHANGED <<serr, globalVars>>
           ELSE /\ Raise(t, MalformedResponse)
                /\ UNCHANGED <<l_games, have>>
    /\ UNCHANGED <<hostVars, pluginVars,
                   row, rows, l_user, l_friends, l_email, attempts>>
    /\ UNCHANGED <<l_node, gamesVars>>

\* get_friends: friend_node_ids
RecvRows(t) ==
    /\ Takes(t, "rows_recv", "nodeIds")
    /\ rows' = Head(inbox).val
    /\ row' = 1
    /\ IF Head(inbox).val = <<>>
       THEN have' = have \cup {"contacts"} /\ Goto(t, "email_send")
       ELSE have' = have /\ Goto(t, "unode_send")
    /\ UNCHANGED <<hostVars, pluginVars, globalVars,
                   l_user, l_games, l_friends, l_email, attempts, serr>>
    /\ UNCHANGED <<l_node, gamesVars>>

\* get_friends: username_node_id / discriminator_node_id
RecvRowNode(t) ==
    /\ \/ Takes(t, "unode_recv", "nodeId") /\ Goto(t, "uhtml_send")
       \/ Takes(t, "dnode_recv", "nodeId") /\ Goto(t, "dhtml_send")
    /\ l_node' = Head(inbox).val
    /\ UNCHANGED <<hostVars, pluginVars, globalVars,
                   row, rows, l_user, l_games, l_friends, l_email, have, attempts, serr>>
    /\ UNCHANGED gamesVars

\* get_friends: the username's markup and re.search(...)[1] on it.
RecvUsername(t) ==
    /\ Takes(t, "uhtml_recv", "outerHTML")
    /\ IF ~re_search_username(Head(inbox).val).matched
       THEN Raise(t, MalformedResponse) /\ UNCHANGED l_user
       ELSE /\ l_user' = re_search_username(Head(inbox).val).group
            /\ Goto(t, "dnode_send")
            /\ UNCHANGED <<serr, globalVars>>
    /\ UNCHANGED <<hostVars, pluginVars,
                   row, rows, l_games, l_friends, l_email, have, attempts>>
    /\ UNCHANGED <<l_node, gamesVars>>

\* FriendInfo(user_id, user_name)
FriendInfo(id, name) == [handle |-> id, name |-> name]

\* get_friends: the discriminator's markup, re.search(...)[1], friends.append.
RecvDiscriminator(t) ==
    /\ Takes(t, "dhtml_recv", "outerHTML")
    /\ IF ~re_search_discriminator(Head(inbox).val).matched
       THEN Raise(t, MalformedResponse) /\ UNCHANGED <<l_friends, row, have>>
       ELSE /\ l_friends' = Append(l_friends,
                                FriendInfo(l_user \o <<"#">>
                                             \o re_search_discriminator(Head(inbox).val).group,
                                           l_user))
            /\ row' = row + 1
            /\ IF row < Len(rows)
               THEN have' = have /\ Goto(t, "unode_send")
               ELSE have' = have \cup {"contacts"} /\ Goto(t, "email_send")
            /\ UNCHANGED <<serr, globalVars>>
    /\ UNCHANGED <<hostVars, pluginVars,
                   rows, l_user, l_games, l_email, attempts>>
    /\ UNCHANGED <<l_node, gamesVars>>

\* get_user_email
RecvEmail(t) ==
    /\ Takes(t, "email_recv", "value")
    /\ l_email' = Head(inbox).val
    /\ have' = have \cup {"email"}
    /\ Goto(t, "publish")
    /\ UNCHANGED <<hostVars, pluginVars, globalVars,
                   row, rows, l_user, l_games, l_friends, attempts, serr>>
    /\ UNCHANGED <<l_node, gamesVars>>

\* start(): returned_from_trio_run = (games, friends, email)
Publish(t) ==
    /\ InScrape(t) /\ spc = "publish"
    /\ returned_from_trio_run' = Gathered
    /\ slotWriter' = t
    /\ Goto(t, "fields")
    /\ UNCHANGED <<hostVars, pluginVars, ws_url, killedSince, connVars,
                   row, rows, l_user, l_games, l_friends, l_email, have, attempts, serr>>
    /\ UNCHANGED <<l_node, gamesVars>>

\* str(x)[1:-1]
Strip(x) == SubSeq(x, 2, Len(x) - 1)

\* scrape_discord: the three fields from the slot.
SetFields(t) ==
    /\ InScrape(t) /\ spc = "fields"
    /\ user_email' = Strip(returned_from_trio_run["email"])
    /\ games' = returned_from_trio_run["inventory"]
    /\ friends' = returned_from_trio_run["contacts"]
    /\ Goto(t, "kill")
    /\ UNCHANGED <<hostVars, globalVars, connVars,
                   row, rows, l_user, l_games, l_friends, l_email, have, attempts, serr>>
    /\ UNCHANGED <<l_node, gamesVars>>

\* scrape_discord: subprocess.Popen(kill_command), a single string without
\* shell=True: a command line on Windows, the name of a program elsewhere.
Kill(t) ==
    /\ InScrape(t) /\ spc = "kill"
    /\ IF isWindows
       THEN /\ discord' = NoProc
            /\ killedSince' = TRUE
            /\ Goto(t, "returned")
            /\ UNCHANGED <<serr, ws_url, returned_from_trio_run, slotWriter>>
       ELSE /\ Raise(t, KillFailed)
            /\ UNCHANGED discord
    /\ UNCHANGED <<isWindows, stored, output, pluginVars, connVars,
                   row, rows, l_user, l_games, l_friends, l_email, have, attempts>>
    /\ UNCHANGED <<l_node, gamesVars>>


\* The websocket is a local of start(): it is dropped with the scrape.
DropConnection ==
    /\ connected' = FALSE
    /\ outbox' = <<>>
    /\ inbox' = <<>>
    /\ sent' = <<>>
    /\ events' = 0
    /\ lastRecv' = NoRecv

\* The locals of start, get_games and get_friends end with the call.
DropLocals ==
    /\ spc' = "none"
    /\ row' = 0
    /\ rows' = <<>>
    /\ l_node' = 0
    /\ l_user' = <<>>
    /\ l_games' = <<>>
    /\ l_friends' = <<>>
    /\ l_email' = <<>>
    /\ have' = {}
    /\ attempts' = 0
    /\ serr' = "none"
    /\ slotWriter' = NoTask

\* What the caller of a host call gets when its scrape raised k: authenticate
\* wraps scrape_discord in try/except Exception and raises InvalidCredentials;
\* get_owned_games and get_friends have no handler.
SurfacedGeneric(o, k) == InvalidCredentials
Surfaced(o, k) == IF o = "authenticate" THEN InvalidCredentials ELSE k

\* scrape_discord raised.
ScrapeRaised(t) ==
    /\ InScrape(t) /\ spc = "raised"
    /\ Finish(t, Surfaced(op[t], serr), serr)
    /\ DropLocals
    /\ DropConnection
    /\ UNCHANGED <<hostVars, pluginVars, ws_url, killedSince, returned_from_trio_run>>
    /\ UNCHANGED gamesVars

\* authenticate: if self.user_email
StoresCredentialsAlways(email) == TRUE
StoresCredentials(email) == email # <<>>

\* scrape_discord returned: authenticate stores the credentials or raises,
\* get_owned_games / get_friends return the field.
ScrapeReturned(t) ==
    /\ InScrape(t) /\ spc = "returned"
    /\ IF op[t] = "authenticate"
       THEN IF StoresCredentials(user_email)
            THEN stored' = user_email /\ Finish(t, "ok", "none")
            ELSE stored' = stored /\ Finish(t, InvalidCredentials, "none")
       ELSE stored' = stored /\ Finish(t, "ok", "none")
    /\ DropLocals
    /\ DropConnection
    /\ UNCHANGED <<isWindows, discord, output, pluginVars, ws_url, killedSince,
                   returned_from_trio_run>>
    /\ UNCHANGED gamesVars

\* ------------------------------------------------- the remote side
\* The DevTools endpoint answers the oldest unanswered request, with a result or an error.
RemoteRespond ==
    /\ connected /\ outbox # <<>>
    /\ \E f \in ResultsFor(Head(outbox)) \cup {ErrorFor(Head(outbox))} :
        inbox' = Append(inbox, f)
    /\ outbox' = Tail(outbox)
    /\ UNCHANGED <<hostVars, pluginVars, globalVars, taskVars, scrapeVars,
                   connected, sent, events, lastRecv>>
    /\ UNCHANGED gamesVars

\* The DevTools endpoint emits an event notification.
RemoteEvent ==
    /\ connected /\ events < MaxEvents
    /\ inbox' = Append(inbox, EventFrame)
    /\ events' = events + 1
    /\ UNCHANGED <<hostVars, pluginVars, globalVars, taskVars, scrapeVars,
                   connected, outbox, sent, lastRecv>>
    /\ UNCHANGED gamesVars

\* ------------------------------------------- the relaunched process
\* The replacement writes a line to its stdout.
ChildPrints ==
    /\ \E t \in Tasks : tpc[t] = "scan"
    /\ discord.alive /\ output = "none"
    /\ output' \in Lines
    /\ UNCHANGED <<isWindows, stored, discord, pluginVars, globalVars, taskVars,
                   scrapeVars, connVars>>
    /\ UNCHANGED gamesVars

\* The replacement exits during its startup: readline() returns "" and
\* process.poll() is not None.
ChildExits ==
    /\ \E t \in Tasks : tpc[t] = "scan"
    /\ discord.alive /\ output = "none"
    /\ discord' = NoProc
    /\ output' = "eof"
    /\ UNCHANGED <<isWindows, stored, pluginVars, globalVars, taskVars,
                   scrapeVars, connVars>>
    /\ UNCHANGED gamesVars

\* ------------------------------------------------------------- Next
HostNext == \E t \in Tasks, o \in Ops : Call(t, o)

PluginNext ==
    \E t \in Tasks :
        \/ AuthStored(t)
        \/ AuthPrepare(t)
        \/ ScanLine(t)
        \/ GetWsUrlOk(t)
        \/ GetWsUrlFail(t)
        \/ EnsureScrape(t)
        \/ EnsureSkip(t)
        \/ LocalGames(t)
        \/ Start(t)
        \/ SendCommand(t)
        \/ RecvClick(t)
        \/ RecvDocument(t)
        \/ RecvDiscard(t)
        \/ RecvWrongShape(t)
        \/ RecvGames(t)
        \/ RecvRows(t)
        \/ RecvRowNode(t)
        \/ RecvUsername(t)
        \/ RecvDiscriminator(t)
        \/ RecvEmail(t)
        \/ Publish(t)
        \/ SetFields(t)
        \/ Kill(t)
        \/ ScrapeRaised(t)
        \/ ScrapeReturned(t)

RemoteNext == RemoteRespond \/ RemoteEvent

ChildNext == ChildPrints \/ ChildExits

Next == HostNext \/ PluginNext \/ RemoteNext \/ ChildNext

Spec == Init /\ [][Next]_vars

\* The plugin's own steps are taken when they can be: the event loop runs a
\* ready task, and a blocking call returns once its frame is there.  Nothing
\* is assumed of the host, of the remote side or of the relaunched process.
FairSpec == Spec /\ WF_vars(PluginNext)

\* The same, with a DevTools endpoint that answers every request it is sent.
FairRemoteSpec == Spec /\ WF_vars(PluginNext) /\ WF_vars(RemoteRespond)


\* ------------------------------------------- get_games on its own
\* get_games is given an installationPaths list and walks a disk; nothing
\* else of the plugin runs.
InventoryInit ==
    /\ isWindows = TRUE
    /\ stored = <<>>
    /\ discord = NoProc
    /\ Constructed
    /\ installationPaths \in PathLists
    /\ disk \in Disks
    /\ inventory = NoInventory

CallGetGames ==
    /\ ~inventory.called
    /\ inventory' = get_games(installationPaths, disk)
    /\ UNCHANGED <<installationPaths, disk, hostVars, pluginVars, globalVars, taskVars,
                   scrapeVars, connVars>>

InventoryNext == CallGetGames

InventorySpec == InventoryInit /\ [][InventoryNext]_vars

\* =============================================================== claims

\* C1: on every connection the correlation ids of the requests written to it
\* are strictly increasing in send order, so no id is used twice.
C1_IdsStrictlyIncreasing ==
    \A i, j \in 1..Len(sent) : i < j => sent[i] < sent[j]

\* C2: the frame a send takes as its response is the frame whose id equals
\* the id of its request; a frame with another id (or none) is never taken.
C2_ResponseMatchesRequestId ==
    (connected /\ lastRecv.as = "taken") =>
        (sent # <<>> /\ lastRecv.id = sent[Len(sent)])

\* Requests written whose response the client has not read yet.
Outstanding ==
    Len(outbox) + Cardinality({i \in 1..Len(inbox) : inbox[i].kind # "event"})

\* C3: the client does not pipeline: at most one request awaits its response,
\* also when an unsolicited frame arrives between a request and its response.
C3_NoPipelining == Outstanding <= 1

\* The client reads an error frame off the connection in this step.
ReadsErrorFrame ==
    /\ connected /\ connected'
    /\ inbox # <<>> /\ inbox' = Tail(inbox)
    /\ Head(inbox).kind = "error"

\* C4: when the response frame carries an error, the send ends in RemoteError,
\* propagated to the caller: no result is returned, no further frame awaited.
C4_ErrorFrameRaisesRemoteError ==
    [][ReadsErrorFrame => (spc' = "raised" /\ serr' = RemoteError)]_vars

\* C5: every send eventually completes (with a result, a RemoteError or a
\* ProtocolTimeout), whatever the remote side delivers or fails to deliver.
C5_SendCompletes == (spc \in RecvPcs) ~> (spc \notin RecvPcs)

\* C6: a handshake failure below the maximum number of attempts never ends
\* the scrape: the orchestrator attempts the connection again.
C6_HandshakeFailureRetried ==
    ~(spc = "raised" /\ serr = HandshakeFailed /\ attempts <= MaxRecTries)

\* A start() that ended without ever getting a connection, from an endpoint
\* that had been resolved: every one of its connection attempts failed.
AllAttemptsFailed ==
    spc = "raised" /\ ~connected /\ ws_url # NoUrl /\ attempts > 0

\* C7: when every connection attempt fails, the attempts stay within the
\* maximum and the orchestrator ends FAILED by raising MaxRetriesExceeded
\* (the InvalidCredentials of start's retry check), after the maximum of attempts.
C7_ExhaustionRaisesMaxRetries ==
    /\ attempts <= MaxRecTries + 1
    /\ AllAttemptsFailed => (serr = InvalidCredentials /\ attempts > MaxRecTries)


\* The failure kinds other than a handshake failure that a scrape raises.
OtherKinds == {InvalidUrl, MalformedResponse, KillFailed}

\* The scrape of task t ends, in this step, by an exception of another kind
\* than a handshake failure.
ScrapeFails(t) ==
    /\ tpc[t] = "scrape" /\ spc = "raised" /\ serr \in OtherKinds
    /\ tpc'[t] # tpc[t]

\* C8 as stated: a failure other than a handshake failure is not retried and
\* reaches the caller of the host call with its kind preserved.
C8_KindPreserved ==
    [][\A t \in Tasks : ScrapeFails(t) => (tpc'[t] = "done" /\ result'.out = serr)]_vars

\* C8 as amended: such a failure is not retried; it reaches the caller of
\* get_owned_games / get_friends with its kind preserved and the caller of
\* authenticate as InvalidCredentials, whatever its kind; a failure of the
\* endpoint resolution reaches the caller of authenticate with its kind.
C8_KindPreservedOutsideAuthenticate ==
    [][\A t \in Tasks :
        /\ ScrapeFails(t) =>
             /\ tpc'[t] = "done" /\ spc' = "none"
             /\ result'.op = op[t]
             /\ result'.out = (IF op[t] = "authenticate" THEN InvalidCredentials ELSE serr)
        /\ (tpc[t] = "ws_wait" /\ tpc'[t] = "done") =>
             result'.out \in {DebugPortTimeout, MalformedResponse}
      ]_vars

\* A malformed response ended the scrape that authenticate ran, and
\* authenticate's caller got InvalidCredentials.
C8_Witness ==
    /\ result.op = "authenticate"
    /\ result.out = InvalidCredentials
    /\ result.cause = MalformedResponse

\* C9: the shared result slot is absent or holds the complete
\* {inventory, contacts, email} triple of one finished scrape, also after a
\* scrape that failed when some of its extractions had succeeded.
C9_SlotAbsentOrComplete ==
    /\ DOMAIN returned_from_trio_run \in {{}, Parts}
    /\ spc = "fields" => returned_from_trio_run = Gathered

\* A scrape failed after its inventory extraction and before its email extraction.
C9_Witness ==
    spc = "raised" /\ "inventory" \in have /\ "email" \notin have

\* C10: single-flight: no scrape starts while another is outstanding, so one
\* scrape at a time writes the slot, and the scrape that reads the slot into
\* the plugin's fields is the one that wrote it.
C10_SingleFlight ==
    /\ Cardinality({t \in Tasks : tpc[t] = "scrape"}) <= 1
    /\ \A t \in Tasks : (tpc[t] = "scrape" /\ spc = "fields") => slotWriter = t

\* A host call runs its scrape while authenticate is suspended in get_ws_url.
C10_Witness ==
    \E t, u \in Tasks :
        /\ op[t] = "authenticate" /\ tpc[t] = "ws_wait"
        /\ tpc[u] = "scrape" /\ spc = "fields"

\* Task t is in prepare_and_discover_discord, before it has looked at the processes.
AtPrepare(t) ==
    running = t /\ op[t] = "authenticate" /\ tpc[t] = "entry" /\ stored = <<>>

\* C11: when the target process already has --remote-debugging-port=PORT on
\* its command line, prepare_and_discover_discord returns without killing it
\* and without spawning a replacement, whatever the length of the command line.
C11_DebuggingProcessKept ==
    [][\A t \in Tasks :
        (AtPrepare(t) /\ discord.alive /\ discord.dbg /\ tpc'[t] # "entry") =>
            (tpc'[t] = "ws_wait" /\ discord' = discord)
      ]_vars

\* C12: prepare_and_discover_discord returns, and authenticate goes on to the
\* endpoint resolution, only when a target process with debugging enabled
\* exists: with no target process it fails with ProcessNotFound, and when the
\* replacement's output ends before the listening line, with LaunchFailed.
C12_PrepareFailsWithoutTarget ==
    [][\A t \in Tasks :
        /\ (AtPrepare(t) /\ ~discord.alive /\ tpc'[t] # "entry") =>
             (tpc'[t] = "done" /\ result'.out = ProcessNotFound)
        /\ (tpc[t] = "scan" /\ output = "eof" /\ tpc'[t] # "scan") =>
             (tpc'[t] = "done" /\ result'.out = LaunchFailed)
        /\ (tpc[t] \in {"entry", "scan"} /\ tpc'[t] = "ws_wait") =>
             Listening(discord')
      ]_vars

\* C13: the scan of the replacement's startup output always ends: on the
\* listening line, on the exit of the process, or on a bound; it does not
\* wait forever on a process that stays alive and prints no further line.
C13_ScanTerminates ==
    (\E t \in Tasks : tpc[t] = "scan") ~> (\A t \in Tasks : tpc[t] # "scan")

\* C14: with an empty list of install roots get_games returns the empty
\* inventory as a success and makes no filesystem access.
C14_EmptyRootsNoAccess ==
    (inventory.called /\ installationPaths = <<>>) =>
        (inventory.ok /\ inventory.games = <<>> /\ inventory.reads = <<>>)

\* get_games has returned for an empty list while the disk holds an application.
C14_Witness ==
    /\ inventory.called /\ installationPaths = <<>>
    /\ \E r \in Roots : disk[r].kind = "dir" /\ disk[r].list = <<"dir_info">>

\* The entries an install root contributes: one per immediate subdirectory
\* that holds the metadata file, none when the root is not a directory.
EntriesOf(d, r) ==
    LET with == SelectSeq([j \in 1..Len(d[r].list) |-> j],
                          LAMBDA j : d[r].list[j] = "dir_info")
    IN IF d[r].kind = "dir"
       THEN [k \in 1..Len(with) |->
                [game_id |-> <<"id", r, with[k]>>, game_title |-> <<"name", r, with[k]>>]]
       ELSE <<>>

RECURSIVE ExpectedInventory(_, _)
ExpectedInventory(paths, d) ==
    IF paths = <<>> THEN <<>>
    ELSE EntriesOf(d, Head(paths)) \o ExpectedInventory(Tail(paths), d)

\* A metadata file under one of the listed roots does not parse.
BrokenInfo(paths, d) ==
    \E i \in 1..Len(paths) :
        /\ d[paths[i]].kind = "dir"
        /\ \E j \in 1..Len(d[paths[i]].list) : d[paths[i]].list[j] = "dir_bad"

\* C15: for every list of install roots and every disk, the inventory
\* get_games returns has exactly one entry per immediate subdirectory holding
\* the metadata file, over the roots that are directories, in list order; a
\* root that does not exist, and a subdirectory without the metadata file,
\* contribute nothing and raise nothing.
C15_InventoryMatchesDisk ==
    inventory.called =>
        /\ inventory.ok <=> ~BrokenInfo(installationPaths, disk)
        /\ inventory.ok => inventory.games = ExpectedInventory(installationPaths, disk)

\* get_games has returned an entry for a list whose first root does not
\* exist and whose second holds a subdirectory without the metadata file.
C15_Witness ==
    /\ inventory.called /\ inventory.ok
    /\ Len(installationPaths) = 2
    /\ disk[installationPaths[1]].kind = "absent"
    /\ disk[installationPaths[2]].list = <<"dir", "dir_info">>
    /\ Len(inventory.games) = 1

\* The text a browser shows for the markup m of a text node: &amp; is &.
RECURSIVE Unescape(_)
Unescape(m) ==
    IF m = <<>> THEN <<>>
    ELSE IF Len(m) >= 5 /\ SubSeq(m, 1, 5) = <<"&", "a", "m", "p", ";">>
         THEN <<"&">> \o Unescape(SubSeq(m, 6, Len(m)))
         ELSE <<Head(m)>> \o Unescape(Tail(m))

\* The text of the span whose outerHTML is html.
TextOf(html) == Unescape(html.inner)

\* C16: for rows that each have a username span with text U and a
\* discriminator span with text #D, get_friends returns one entry per row, in
\* row order, with displayName = U and handle = U + "#" + D; an empty row
\* list gives the empty contact list as a success.
C16_ContactsMatchRows ==
    [][/\ (spc = "uhtml_recv" /\ spc' = "dnode_send") =>
             l_user' = TextOf(Head(inbox).val)
       /\ (spc = "dhtml_recv" /\ spc' \in {"unode_send", "email_send"}) =>
             l_friends' = Append(l_friends,
                                 [handle |-> l_user \o <<"#">> \o Tail(TextOf(Head(inbox).val)),
                                  name |-> l_user])
       /\ (spc = "rows_recv" /\ spc' = "email_send") =>
             (l_friends' = <<>> /\ "contacts" \in have')
       /\ ("contacts" \notin have /\ "contacts" \in have') =>
             Len(l_friends') = Len(rows')
      ]_vars

\* The row being scraped lacks the sub-element asked for: the single-node
\* query found no node, or the fetch of its markup was answered by an error.
RowLacksElement ==
    /\ spc \in {"uhtml_recv", "dhtml_recv"}
    /\ l_node = NoNode \/ (lastRecv.kind = "error" /\ lastRecv.as = "discarded")

\* C17: a row that lacks the username or the discriminator sub-element
\* produces no entry, and the scrape goes on or ends with MalformedResponse:
\* it does not hang on that row.
C17_MissingElementTerminates ==
    /\ [](RowLacksElement => Len(l_friends) < row)
    /\ RowLacksElement ~> (spc \notin {"uhtml_recv", "dhtml_recv"})

\* start() makes its connection attempt in this step.
ConnectAttempt == spc = "start" /\ attempts' = attempts + 1

\* C18: no connection is attempted before an endpoint has been resolved, nor
\* with an endpoint resolved before the most recent kill of the target
\* process (the kill of prepare_and_discover_discord, or the one the scrape
\* issues when it finishes).
C18_NoStaleEndpoint ==
    [][ConnectAttempt => (ws_url # NoUrl /\ ~killedSince)]_vars

\* authenticate took the stored-credential path: the plugin has an email
\* and no scrape has ever delivered one.
AuthenticatedByStored == user_email # <<>> /\ returned_from_trio_run = NoSlot

\* C19: the stored-credential path and the scrape path exclude each other:
\* once authenticate has taken the stored credentials, nothing kills or
\* relaunches the target process, resolves an endpoint or opens a connection,
\* and games and friends stay empty; without stored credentials at most one
\* scrape succeeds, and it is never repeated.
C19_PathsExclusive ==
    [][/\ AuthenticatedByStored =>
             /\ AuthenticatedByStored'
             /\ games' = <<>> /\ friends' = <<>>
             /\ discord' = discord /\ ws_url' = ws_url /\ ~connected'
       /\ (spc = "publish" /\ spc' = "fields") => returned_from_trio_run = NoSlot
      ]_vars

\* The authenticate call of task t, made without stored credentials, ends in
\* this step.
AuthenticateEnds(t) ==
    op[t] = "authenticate" /\ tpc[t] \in {"ws_wait", "scrape"} /\ tpc'[t] = "done"

\* C20 as stated: authenticate without stored credentials either returns an
\* Authentication with a non-empty email, having stored that email, or raises
\* InvalidCredentials with nothing stored.
C20_TwoOutcomes ==
    [][\A t \in Tasks : AuthenticateEnds(t) =>
        \/ result'.out = "ok" /\ user_email' # <<>> /\ stored' = user_email'
        \/ result'.out = InvalidCredentials /\ stored' = stored
      ]_vars

\* C20 as amended: there is a third outcome, the failure of the endpoint
\* resolution raised with its own kind; nothing is stored then either.  The
\* credential changes only in the step in which authenticate returns.
C20_OutcomesOfAuthenticate ==
    [][/\ \A t \in Tasks : AuthenticateEnds(t) =>
            \/ /\ tpc[t] = "scrape" /\ result'.out = "ok"
               /\ user_email' # <<>> /\ stored' = user_email'
            \/ /\ tpc[t] = "scrape" /\ result'.out = InvalidCredentials
               /\ stored' = stored
            \/ /\ tpc[t] = "ws_wait" /\ result'.out \in {DebugPortTimeout, MalformedResponse}
               /\ stored' = stored
       /\ stored' # stored =>
            \E t \in Tasks : AuthenticateEnds(t) /\ result'.out = "ok"
      ]_vars

\* authenticate has returned after a scrape and the host holds the email it returned.
C20_Witness ==
    /\ result.op = "authenticate" /\ result.out = "ok"
    /\ returned_from_trio_run # NoSlot
    /\ stored = user_email /\ stored # <<>>

====
